---- MODULE Spec2Model ----
(***************************************************************************)
(* Model of bookserver/models.py: the Web2PyBoolean column type (a         *)
(* tri-state boolean stored as CHAR(1)), the answer_tables registry filled *)
(* by the register_answer_table decorator, and the execution of the module *)
(* body, which declares the table classes in source order.                 *)
(***************************************************************************)
EXTENDS Integers, Sequences, FiniteSets, TLC

VARIABLES
    pc,             \* index in ModuleBody of the next class statement to execute
    answer_tables,  \* the module global dict: __tablename__ -> class
    log,            \* history: the classes passed to register_answer_table, in call order
    ret,            \* outcome of the latest register_answer_table call
    debug,          \* Python's __debug__: FALSE when the interpreter runs with -O
    param,          \* the value last handed to process_bind_param
    cell,           \* the CHAR(1) column value stored in the database row
    origin,         \* "bind": cell holds what process_bind_param returned for param;
                    \* "raw": another writer stored cell; "failed": the bind raised
    result,         \* outcome of process_result_value on the current cell
    seen            \* per reader: the registry it observed

vars == <<pc, answer_tables, log, ret, debug, param, cell, origin, result, seen>>

-----------------------------------------------------------------------------
(* Bounds of the model.                                                    *)

\* Number of concurrent readers of answer_tables after the module is loaded.
NumReaders == 2

\* Number of register_answer_table calls of the free-order registration harness.
MaxCalls == 3

Readers == 1..NumReaders

-----------------------------------------------------------------------------
(* Python values and call outcomes.                                        *)

PyTrue == "True"

PyFalse == "False"

PyNone == "None"

Int0 == "int 0"

Int1 == "int 1"

\* The three states of a Web2PyBoolean column value.
TriState == {PyTrue, PyFalse, PyNone}

\* Values a caller may bind to a Web2PyBoolean column.
BindInputs == TriState \cup {Int0, Int1}

\* Values a CHAR(1) column can hold: NULL is PyNone.
StoredValues == {"T", "F", PyNone, "X", "t", ""}

\* Python truth value testing, as used by `if value:` and `not value`.
Truthy(value) == value \in {PyTrue, Int1}

Return(v) == [kind |-> "return", val |-> v]

Raise(e) == [kind |-> "raise", val |-> e]

\* No process_result_value call has been made on the current cell.
NoCall == [kind |-> "nocall", val |-> PyNone]

\* No value has been bound yet.
NoParam == "no parameter"

\* `assert False`: raises AssertionError when __debug__ holds; the statement is
\* compiled away under -O and the function then falls off its end, returning None.
AssertFalse == IF debug THEN Raise("AssertionError") ELSE Return(PyNone)

-----------------------------------------------------------------------------
(* Web2PyBoolean.                                                          *)

\* Variant: the None test placed after the falsiness test.
process_bind_param_NoneAsFalse(value) ==
    IF Truthy(value) THEN Return("T")
    ELSE IF ~Truthy(value) THEN Return("F")
    ELSE IF value = PyNone THEN Return(PyNone)
    ELSE AssertFalse

process_bind_param(value) ==
    IF Truthy(value) THEN Return("T")
    ELSE IF value = PyNone THEN Return(PyNone)
    ELSE IF ~Truthy(value) THEN Return("F")
    ELSE AssertFalse

\* Variant: any stored character reads as True.
process_result_value_AnyCharTrue(value) ==
    IF value = PyNone THEN Return(PyNone)
    ELSE IF value # "" THEN Return(PyTrue)
    ELSE Return(PyFalse)

\* Variant: the two flag characters exchanged.
process_result_value_Swapped(value) ==
    IF value = "F" THEN Return(PyTrue)
    ELSE IF value = "T" THEN Return(PyFalse)
    ELSE IF value = PyNone THEN Return(PyNone)
    ELSE AssertFalse

process_result_value(value) ==
    IF value = "T" THEN Return(PyTrue)
    ELSE IF value = "F" THEN Return(PyFalse)
    ELSE IF value = PyNone THEN Return(PyNone)
    ELSE AssertFalse

-----------------------------------------------------------------------------
(* The table classes of the module.                                        *)

Class(n, t) == [name |-> n, tablename |-> t]

NoClass == Class("", "")

Useinfo == Class("Useinfo", "useinfo")

Questions == Class("Questions", "questions")

TimedExam == Class("TimedExam", "timed_exam")

MchoiceAnswers == Class("MchoiceAnswers", "mchoice_answers")

FitbAnswers == Class("FitbAnswers", "fitb_answers")

DragndropAnswers == Class("DragndropAnswers", "dragndrop_answers")

ClickableareaAnswers == Class("ClickableareaAnswers", "clickablearea_answers")

ParsonsAnswers == Class("ParsonsAnswers", "parsons_answers")

CodelensAnswers == Class("CodelensAnswers", "codelens_answers")

ShortanswerAnswers == Class("ShortanswerAnswers", "shortanswer_answers")

UnittestAnswers == Class("UnittestAnswers", "unittest_answers")

LpAnswers == Class("LpAnswers", "lp_answers")

Code == Class("Code", "code")

Courses == Class("Courses", "courses")

AuthUser == Class("AuthUser", "auth_user")

Plain(c) == [cls |-> c, decorated |-> FALSE]

Decorated(c) == [cls |-> c, decorated |-> TRUE]

\* Variant: TimedExam declared under the decorator like the other answer classes.
ModuleBody_TimedExamDecorated ==
    << Plain(Useinfo), Plain(Questions), Decorated(TimedExam),
       Decorated(MchoiceAnswers), Decorated(FitbAnswers),
       Decorated(DragndropAnswers), Decorated(ClickableareaAnswers),
       Decorated(ParsonsAnswers), Decorated(CodelensAnswers),
       Decorated(ShortanswerAnswers), Decorated(UnittestAnswers),
       Decorated(LpAnswers), Plain(Code), Plain(Courses), Plain(AuthUser) >>

\* The class statements of the module that declare a table, in source order.
ModuleBody ==
    << Plain(Useinfo), Plain(Questions), Plain(TimedExam),
       Decorated(MchoiceAnswers), Decorated(FitbAnswers),
       Decorated(DragndropAnswers), Decorated(ClickableareaAnswers),
       Decorated(ParsonsAnswers), Decorated(CodelensAnswers),
       Decorated(ShortanswerAnswers), Decorated(UnittestAnswers),
       Decorated(LpAnswers), Plain(Code), Plain(Courses), Plain(AuthUser) >>

\* The module body has run to its end: the import has completed.
Loaded == pc > Len(ModuleBody)

-----------------------------------------------------------------------------
(* The registry.                                                           *)

\* answer_tables = {}
EmptyDict == [k \in {} |-> NoClass]

\* d[key] = v
DictSet(d, key, v) ==
    [k \in (DOMAIN d) \cup {key} |-> IF k = key THEN v ELSE d[k]]

\* Variant: keyed by the class name instead of the table name.
register_answer_table_ByName(tables, cls) ==
    [tables |-> DictSet(tables, cls.name, cls), ret |-> Return(cls)]

\* Variant: an entry already present is kept (dict.setdefault).
register_answer_table_KeepFirst(tables, cls) ==
    [tables |-> IF cls.tablename \in DOMAIN tables
                THEN tables ELSE DictSet(tables, cls.tablename, cls),
     ret |-> Return(cls)]

\* Variant: the global rebound to a fresh one-entry dict.
register_answer_table_Rebind(tables, cls) ==
    [tables |-> DictSet(EmptyDict, cls.tablename, cls), ret |-> Return(cls)]

\* Variant: the `return cls` line missing, so the call returns None.
register_answer_table_NoReturn(tables, cls) ==
    [tables |-> DictSet(tables, cls.tablename, cls), ret |-> Return(NoClass)]

register_answer_table(tables, cls) ==
    [tables |-> DictSet(tables, cls.tablename, cls), ret |-> Return(cls)]

NoRegisterCall == [kind |-> "nocall", val |-> NoClass]

Unread == [read |-> FALSE, tables |-> EmptyDict]

-----------------------------------------------------------------------------
(* Initial state: the interpreter has executed `answer_tables = {}` and is *)
(* about to execute the first class statement.                            *)

Init ==
    /\ pc = 1
    /\ answer_tables = EmptyDict
    /\ log = << >>
    /\ ret = NoRegisterCall
    /\ debug \in BOOLEAN
    /\ param = NoParam
    /\ cell = PyNone
    /\ origin = "raw"
    /\ result = NoCall
    /\ seen = [r \in Readers |-> Unread]

\* One class statement of the module body; a decorated one calls the decorator.
ExecClassStatement ==
    /\ ~Loaded
    /\ LET stmt == ModuleBody[pc] IN
         IF stmt.decorated
         THEN LET call == register_answer_table(answer_tables, stmt.cls) IN
                /\ answer_tables' = call.tables
                /\ ret' = call.ret
                /\ log' = Append(log, stmt.cls)
         ELSE UNCHANGED <<answer_tables, ret, log>>
    /\ pc' = pc + 1
    /\ UNCHANGED <<debug, param, cell, origin, result, seen>>

\* A reader (reporting, grading) takes the module global after the import.
ReadRegistry(r) ==
    /\ Loaded
    /\ seen' = [seen EXCEPT ![r] = [read |-> TRUE, tables |-> answer_tables]]
    /\ UNCHANGED <<pc, answer_tables, log, ret, debug, param, cell, origin, result>>

\* A statement binds a value to a Web2PyBoolean column and the row is written.
Bind(value) ==
    /\ Loaded
    /\ LET out == process_bind_param(value) IN
         /\ param' = value
         /\ cell' = IF out.kind = "return" THEN out.val ELSE cell
         /\ origin' = IF out.kind = "return" THEN "bind" ELSE "failed"
    /\ result' = NoCall
    /\ UNCHANGED <<pc, answer_tables, log, ret, debug, seen>>

\* Another writer of the database (the legacy application) stores a character.
RawWrite(c) ==
    /\ Loaded
    /\ cell' = c
    /\ origin' = "raw"
    /\ param' = NoParam
    /\ result' = NoCall
    /\ UNCHANGED <<pc, answer_tables, log, ret, debug, seen>>

\* A row is fetched and the column value converted.
Fetch ==
    /\ Loaded
    /\ result' = process_result_value(cell)
    /\ UNCHANGED <<pc, answer_tables, log, ret, debug, param, cell, origin, seen>>

Next ==
    \/ ExecClassStatement
    \/ \E r \in Readers : ReadRegistry(r)
    \/ \E value \in BindInputs : Bind(value)
    \/ \E c \in StoredValues : RawWrite(c)
    \/ Fetch

Spec == Init /\ [][Next]_vars

-----------------------------------------------------------------------------
(* Free-order registration: a caller applies register_answer_table to any  *)
(* classes, in any order, table names repeated or not.                     *)

TableIds == {"mchoice_answers", "fitb_answers", "lp_answers"}

Entities == {Class(n, t) : n \in {"First", "Second"}, t \in TableIds}

Register(cls) ==
    /\ Len(log) < MaxCalls
    /\ LET call == register_answer_table(answer_tables, cls) IN
         /\ answer_tables' = call.tables
         /\ ret' = call.ret
    /\ log' = Append(log, cls)
    /\ UNCHANGED <<pc, debug, param, cell, origin, result, seen>>

NextReg == \E cls \in Entities : Register(cls)

SpecReg == Init /\ [][NextReg]_vars

-----------------------------------------------------------------------------
(* Properties of Web2PyBoolean, checked under Spec.                        *)

\* C1: round trip. When the cell holds the encoding of a tri-state value and
\* the cell has been decoded, the decoded outcome is a return of that value.
C1_RoundTrip ==
    (origin = "bind" /\ param \in TriState /\ result # NoCall)
        => result = Return(param)

C1_Witness ==
    /\ origin = "bind"
    /\ param = PyFalse
    /\ result = Return(PyFalse)

\* C2: after binding True the stored value is 'T', after binding False it is
\* 'F', after binding None it is NULL, and the bind returned in each case.
C2_Encode ==
    /\ param = PyTrue => (origin = "bind" /\ cell = "T")
    /\ param = PyFalse => (origin = "bind" /\ cell = "F")
    /\ param = PyNone => (origin = "bind" /\ cell = PyNone)

C2_Witness ==
    /\ param = PyNone
    /\ origin = "bind"
    /\ cell = PyNone

\* C3: decoding a stored 'T' returns True, a stored 'F' returns False and a
\* stored NULL returns None.
C3_Decode ==
    result # NoCall =>
        /\ cell = "T" => result = Return(PyTrue)
        /\ cell = "F" => result = Return(PyFalse)
        /\ cell = PyNone => result = Return(PyNone)

C3_Witness ==
    /\ origin = "raw"
    /\ cell = "F"
    /\ result = Return(PyFalse)

\* C4: decoding a stored value other than 'T', 'F' or NULL ends in an error and
\* never returns a value.
C4_InvalidRaises ==
    (result # NoCall /\ cell \notin {"T", "F", PyNone})
        => result.kind = "raise"

-----------------------------------------------------------------------------
(* Properties of the module load, checked under Spec.                      *)

DecoratedIndexes == {i \in 1..Len(ModuleBody) : ModuleBody[i].decorated}

\* The last decorated statement of the module body that declares table t.
LastDeclaration(t) ==
    CHOOSE i \in DecoratedIndexes :
        /\ ModuleBody[i].cls.tablename = t
        /\ \A j \in DecoratedIndexes : ModuleBody[j].cls.tablename = t => j <= i

\* The mapping a completed load of the module body leaves in answer_tables.
FullyPopulated ==
    [t \in {ModuleBody[i].cls.tablename : i \in DecoratedIndexes} |->
        ModuleBody[LastDeclaration(t)].cls]

\* C8: once the import has completed no step changes answer_tables, and every
\* reader observes the same mapping, the one holding every decorated class.
C8_ReadOnlyAfterLoad ==
    /\ [][Loaded => answer_tables' = answer_tables]_vars
    /\ [](\A r \in Readers : seen[r].read =>
             /\ seen[r].tables = FullyPopulated
             /\ \A q \in Readers : seen[q].read => seen[q].tables = seen[r].tables)

C8_Witness ==
    /\ Loaded
    /\ \A r \in Readers : seen[r].read /\ seen[r].tables = answer_tables
    /\ result # NoCall
    /\ origin = "bind"

NineTables ==
    { "mchoice_answers", "fitb_answers", "dragndrop_answers",
      "clickablearea_answers", "parsons_answers", "codelens_answers",
      "shortanswer_answers", "unittest_answers", "lp_answers" }

DistinctTableNames(s) ==
    \A i, j \in 1..Len(s) : i # j => s[i].tablename # s[j].tablename

\* C10: when the import has completed the registry has exactly the nine keys
\* of the answer tables, no table name was registered twice during the load,
\* and timed_exam is never a key.
C10_NineTables ==
    /\ "timed_exam" \notin DOMAIN answer_tables
    /\ DistinctTableNames(log)
    /\ Loaded =>
         /\ DOMAIN answer_tables = NineTables
         /\ Cardinality(DOMAIN answer_tables) = 9
         /\ Len(log) = 9

C10_Witness ==
    /\ Loaded
    /\ Cardinality(DOMAIN answer_tables) = 9
    /\ answer_tables["lp_answers"] = LpAnswers

-----------------------------------------------------------------------------
(* Properties of register_answer_table, checked under SpecReg.             *)

\* The step is a register_answer_table call.
IsCall == log' # log

\* The class passed to the call the step makes.
Arg == log'[Len(log')]

\* C5: after registering classes with pairwise distinct table names, in any
\* order, the registry has exactly one entry per call: its keys are the table
\* names and each maps to the class registered under it.
C5_DistinctRegistered ==
    DistinctTableNames(log) =>
        /\ Cardinality(DOMAIN answer_tables) = Len(log)
        /\ DOMAIN answer_tables = {log[i].tablename : i \in 1..Len(log)}
        /\ \A i \in 1..Len(log) : answer_tables[log[i].tablename] = log[i]

C5_Witness ==
    /\ Len(log) >= 3
    /\ DistinctTableNames(log)
    /\ log[1].name = log[2].name

\* C6 as claimed: a call whose table name is already a key fails with an error
\* and leaves the registry as it was.
C6_DuplicateFails ==
    [][(IsCall /\ Arg.tablename \in DOMAIN answer_tables)
          => (ret'.kind = "raise" /\ answer_tables' = answer_tables)]_vars

\* C6 amended: a call whose table name is already a key returns the class
\* normally and replaces the entry under that name by the new class; the key
\* set and every other entry stay as they were.
C6_DuplicateReplaces ==
    [][(IsCall /\ Arg.tablename \in DOMAIN answer_tables)
          => /\ ret' = Return(Arg)
             /\ answer_tables' = [answer_tables EXCEPT ![Arg.tablename] = Arg]]_vars

C6_Witness ==
    /\ Len(log) >= 2
    /\ log[1].tablename = log[Len(log)].tablename
    /\ log[1] # log[Len(log)]
    /\ answer_tables[log[1].tablename] = log[Len(log)]
    /\ ret = Return(log[Len(log)])

\* C7: a table name is a key right after its call returns and in every later
\* state; no step removes a key.
C7_AppendOnly ==
    /\ [](\A i \in 1..Len(log) : log[i].tablename \in DOMAIN answer_tables)
    /\ [][DOMAIN answer_tables \subseteq DOMAIN answer_tables']_vars

C7_Witness ==
    /\ Len(log) >= 3
    /\ log[1].tablename = log[2].tablename
    /\ log[1].tablename # log[3].tablename
    /\ log[1].tablename \in DOMAIN answer_tables

\* C9: a call returns the class it was given, and every entry under another
\* table name is the same before and after the call.
C9_ReturnsArgFrame ==
    [][IsCall =>
          /\ ret' = Return(Arg)
          /\ \A k \in ((DOMAIN answer_tables) \cup (DOMAIN answer_tables')) \ {Arg.tablename} :
                /\ k \in DOMAIN answer_tables
                /\ k \in DOMAIN answer_tables'
                /\ answer_tables'[k] = answer_tables[k]]_vars

C9_Witness ==
    /\ Len(log) >= 2
    /\ ret = Return(log[Len(log)])
    /\ Cardinality(DOMAIN answer_tables) >= 2
    /\ answer_tables[log[1].tablename] = log[1]

====
